---- MODULE Spec2Model ----
(***************************************************************************)
(* Model of the 3x3 sliding puzzle solver of src/src/main.rs and of the    *)
(* factorial-base numbers of src/src/factoriadic.rs.                       *)
(*                                                                         *)
(* A u32 is a bit vector: a sequence of 32 bits, least significant first,   *)
(* so that shifts, rotates, masks and the wrapping addition keep           *)
(* their 32-bit width.  Arithmetic follows a build without overflow        *)
(* checks: `+` wraps modulo 2^32 and a shift amount is taken modulo 32.    *)
(***************************************************************************)
EXTENDS Integers, Sequences, FiniteSets, TLC

VARIABLES input, output, pc, result, mapping, in_cipher, out_cipher,
          arr, current_moves, future_moves, cur, trace,
          m_src, m_move, m_mid, m_back, m_phase,
          f_op, f_a, f_b, f_from, f_this, f_other, f_out, f_phase

vars == <<input, output, pc, result, mapping, in_cipher, out_cipher,
          arr, current_moves, future_moves, cur, trace,
          m_src, m_move, m_mid, m_back, m_phase,
          f_op, f_a, f_b, f_from, f_this, f_other, f_out, f_phase>>

solve_vars == <<input, output, pc, result, mapping, in_cipher, out_cipher,
                arr, current_moves, future_moves, cur, trace>>

move_vars == <<m_src, m_move, m_mid, m_back, m_phase>>

fact_vars == <<f_op, f_a, f_b, f_from, f_this, f_other, f_out, f_phase>>

(***************************************************************************)
(* 32-bit unsigned integers                                                *)
(***************************************************************************)
\* bit i (0..31, bit 0 least significant) is the element i + 1
Bits == 1..32

Pow2(n) == 2^n

\* the u32 holding the natural number n (n < 2^31)
FromNat(n) == [j \in Bits |-> IF j <= 31 THEN (n \div Pow2(j - 1)) % 2 ELSE 0]

\* the natural number a u32 holds (its bit 31 must be clear)
ToNat(b) ==
    LET f[j \in Bits] == IF j = 32 THEN b[32] ELSE b[j] + 2 * f[j + 1]
    IN  f[1]

Zero32 == [j \in Bits |-> 0]

BitAnd(a, b) == [j \in Bits |-> a[j] * b[j]]

BitOr(a, b) == [j \in Bits |-> IF a[j] + b[j] > 0 THEN 1 ELSE 0]

BitNot(a) == [j \in Bits |-> 1 - a[j]]

\* a << n on u32: the amount is taken modulo 32, bits shifted out are lost
Shl(a, n) == LET k == n % 32 IN [j \in Bits |-> IF j - k >= 1 THEN a[j - k] ELSE 0]

\* a >> n on u32
Shr(a, n) == LET k == n % 32 IN [j \in Bits |-> IF j + k <= 32 THEN a[j + k] ELSE 0]

\* u32::rotate_right(n), n a u32: only the low 5 bits of the amount count
rotate_right(a, n) ==
    LET k == n[1] + 2 * n[2] + 4 * n[3] + 8 * n[4] + 16 * n[5]
    IN  [j \in Bits |-> a[((j - 1 + k) % 32) + 1]]

\* a + b on u32, wrapping modulo 2^32 (ripple carry from bit 0); a build
\* with overflow checks panics where the carry out of bit 31 is 1
WrappingAdd(a, b) ==
    LET carry[j \in Bits] ==
            IF j = 1 THEN 0
            ELSE IF a[j - 1] + b[j - 1] + carry[j - 1] >= 2 THEN 1 ELSE 0
    IN  [j \in Bits |-> (a[j] + b[j] + carry[j]) % 2]

\* the carry out of bit 31 of a + b: 1 when the sum does not fit 32 bits,
\* where a build with overflow checks panics
CarryOut(a, b) ==
    LET carry[j \in 1..33] ==
            IF j = 1 THEN 0
            ELSE IF a[j - 1] + b[j - 1] + carry[j - 1] >= 2 THEN 1 ELSE 0
    IN  carry[33]

\* `x as u32` for an i32 x: two's complement
AsU32(x) == IF x >= 0 THEN FromNat(x) ELSE BitNot(FromNat(-x - 1))

\* a % n on i32 for n > 0: the remainder of the division that truncates
\* toward zero
i32_rem(a, n) == IF a >= 0 THEN a % n ELSE -((-a) % n)

(***************************************************************************)
(* State codec: main.rs lines 58-81                                        *)
(***************************************************************************)
get_blank_pos(field) == ToNat(Shr(field, 27))

to_pos(x) == Shl(x, 27)

\* ((32 + x) % 32) as u32: the remainder of i32 has the sign of 32 + x, and
\* the cast of a negative remainder r gives 2^32 + r
wrap_around(x) == AsU32(i32_rem(32 + x, 32))

get_mask(x) == Shl(FromNat(7), x * 3)

get_tile(field, i) == ToNat(Shr(BitAnd(field, get_mask(i)), i * 3))

(***************************************************************************)
(* Move generator: gen_functions!, main.rs lines 83-134                    *)
(***************************************************************************)
MoveNames == <<"up", "down", "left", "right">>

delta_pos(m) ==
    CASE m = "up" -> -3
      [] m = "down" -> 3
      [] m = "left" -> -1
      [] m = "right" -> 1

up_in_bounds_low(pos) == pos >= 2

up_in_bounds(pos) == pos >= 3

in_bounds(m, pos) ==
    CASE m = "up" -> up_in_bounds(pos)
      [] m = "down" -> pos <= 5
      [] m = "left" -> pos % 3 # 0
      [] m = "right" -> pos % 3 # 2

\* lines 96-112: the tile in the slot the blank moves to, rotated to the
\* slot the blank leaves
digit_new(m, field) ==
    LET blank_pos == get_blank_pos(field) + delta_pos(m)
        mask == get_mask(blank_pos)
        masked == BitAnd(field, mask)
        SHIFT == delta_pos(m) * 3
    IN  rotate_right(masked, wrap_around(SHIFT))

\* lines 115-118: field &= !mask; field |= digit_new
placed(m, field) ==
    LET mask == get_mask(get_blank_pos(field) + delta_pos(m))
    IN  BitOr(BitAnd(field, BitNot(mask)), digit_new(m, field))

\* line 121: the operand added to the field, to_pos(delta as u32)
pos_change(m) == to_pos(AsU32(delta_pos(m)))

\* the body of one generated move function
gen_function(m, field) ==
    IF ~in_bounds(m, get_blank_pos(field)) THEN field
    ELSE WrappingAdd(placed(m, field), pos_change(m))

up(field) == gen_function("up", field)

down(field) == gen_function("down", field)

left(field) == gen_function("left", field)

right(field) == gen_function("right", field)

Apply(m, field) ==
    CASE m = "up" -> up(field)
      [] m = "down" -> down(field)
      [] m = "left" -> left(field)
      [] m = "right" -> right(field)

(***************************************************************************)
(* Input handling: main.rs lines 136-206                                   *)
(***************************************************************************)
Blank == " "

\* make_mapping: every character of the input, the blank included, gets the
\* next key at its first occurrence
RECURSIVE make_mapping_from(_, _, _, _)
make_mapping_from(s, i, map, key) ==
    IF i > Len(s) THEN map
    ELSE IF s[i] \in DOMAIN map THEN make_mapping_from(s, i + 1, map, key)
    ELSE make_mapping_from(s, i + 1, map @@ (s[i] :> key), key + 1)

make_mapping(s) == make_mapping_from(s, 1, <<>>, 0)

count(s, ch) == Cardinality({i \in 1..Len(s) : s[i] = ch})

is_permutation(a, b) == \A i \in 1..Len(a) : count(a, a[i]) = count(b, a[i])

validate_input_swapped(a, b) ==
    IF Len(b) # 9 THEN "OutputSizeMismatch"
    ELSE IF Len(a) # 9 THEN "InputSizeMismatch"
    ELSE IF ~is_permutation(a, b) THEN "AlphabetMismatch"
    ELSE "Ok"

validate_input(a, b) ==
    IF Len(a) # 9 THEN "InputSizeMismatch"
    ELSE IF Len(b) # 9 THEN "OutputSizeMismatch"
    ELSE IF ~is_permutation(a, b) THEN "AlphabetMismatch"
    ELSE "Ok"

\* the closure `pack` of fn pack: index is 0-based
pack_char(cipher, index, ch, map) ==
    BitOr(cipher, IF ch = Blank THEN to_pos(FromNat(index))
                  ELSE Shl(FromNat(map[ch]), index * 3))

\* line 200: input.chars().zip(output.chars()), the walk ends with the
\* shorter string; i is the 1-based index
RECURSIVE pack_from(_, _, _, _, _, _)
pack_from(a, b, i, in_c, out_c, map) ==
    IF i > Len(a) \/ i > Len(b) THEN <<in_c, out_c>>
    ELSE pack_from(a, b, i + 1,
                   pack_char(in_c, i - 1, a[i], map),
                   pack_char(out_c, i - 1, b[i], map), map)

\* fn pack: (in_cipher, out_cipher)
pack(a, b, map) == pack_from(a, b, 1, Zero32, Zero32, map)

\* line 249: the mapping of the returned Trace, code -> char
invert_mapping(map) ==
    [v \in {map[k] : k \in DOMAIN map} |-> CHOOSE k \in DOMAIN map : map[k] = v]

\* Display for Trace, one field: the nine characters written for the slots;
\* "panic" stands for the failing lookup of a code the mapping does not hold
fmt_field(field, inv) ==
    LET blank == get_blank_pos(field) IN
    [j \in 1..9 |->
        IF j - 1 # blank
        THEN LET id == get_tile(field, j - 1) IN
             IF id \in DOMAIN inv THEN inv[id] ELSE "panic"
        ELSE Blank]

(***************************************************************************)
(* Boards handed to solve.  A board is a sequence of characters.           *)
(***************************************************************************)
MaxDist == 3

MaxStates == 80

Tiles8 == <<"1", "2", "3", "4", "5", "6", "7", "8">>

\* the 8 tiles in order with the blank at 0-based slot p
BoardWithBlank(p) ==
    [j \in 1..9 |-> IF j - 1 < p THEN Tiles8[j]
                    ELSE IF j - 1 = p THEN Blank ELSE Tiles8[j - 1]]

BlankIndex(b) == CHOOSE j \in 1..Len(b) : b[j] = Blank

\* the board-level meaning of a slide: the blank changes place with the
\* tile above, below, left or right of it; an illegal slide leaves the board
SlideLegal(m, p) ==
    CASE m = "up" -> p >= 3
      [] m = "down" -> p <= 5
      [] m = "left" -> p % 3 # 0
      [] m = "right" -> p % 3 # 2

SlideDelta(m) ==
    CASE m = "up" -> -3
      [] m = "down" -> 3
      [] m = "left" -> -1
      [] m = "right" -> 1

SlideBoard(m, b) ==
    LET j == BlankIndex(b) IN
    IF ~SlideLegal(m, j - 1) THEN b
    ELSE LET t == j + SlideDelta(m) IN
         [b EXCEPT ![j] = b[t], ![t] = Blank]

AllMoves == {"up", "down", "left", "right"}

RECURSIVE BoardsWithin(_, _)
BoardsWithin(b, d) ==
    IF d = 0 THEN {b}
    ELSE LET near == BoardsWithin(b, d - 1) IN
         near \cup {SlideBoard(m, x) : m \in AllMoves, x \in near}

\* two tiles exchanged: a board of the other parity class
SwapTiles(b) ==
    LET i == CHOOSE i \in 1..Len(b) : b[i] # Blank /\ \A k \in 1..(i - 1) : b[k] = Blank
        j == CHOOSE j \in (i + 1)..Len(b) : b[j] # Blank /\ \A k \in (i + 1)..(j - 1) : b[k] = Blank
    IN  [b EXCEPT ![i] = b[j], ![j] = b[i]]

StartBlanks == {8, 5, 1}

ValidPairs ==
    UNION {
      LET s == BoardWithBlank(p) IN
      {<<s, g>> : g \in BoardsWithin(s, MaxDist) \cup {SwapTiles(s)}}
      : p \in StartBlanks }

\* boards that are not a permutation of 9 distinct symbols with one blank,
\* and pairs of the wrong size or of different alphabets
OddPairs ==
    LET a == "a"
        b == "b"
        o == Blank
    IN  { <<(<<a, a, a, a, a, a, a, a, a>>), (<<a, a, a, a, a, a, a, a, a>>)>>,
          <<(<<a, a, a, a, a, a, a, a, b>>), (<<b, a, a, a, a, a, a, a, a>>)>>,
          <<(<<a, a, a, a, a, a, a, b, o>>), (<<a, a, a, a, a, b, a, a, o>>)>>,
          <<(<<a, o, o, b, a, a, a, a, a>>), (<<a, o, o, a, b, a, a, a, a>>)>>,
          <<(<<a, a, a, a, a, a, b, o, o>>), (<<a, a, a, b, a, a, a, o, o>>)>>,
          <<(<<"1", "2", "3", "4", "5", "6", "7", "8">>), BoardWithBlank(8)>>,
          <<(<<"1", "2", "3", "4", "5", "6", "7", "8", "9", o>>), BoardWithBlank(8)>>,
          <<BoardWithBlank(8), (<<"1", "2", "3", "4", "5", "6", "7", "8">>)>>,
          <<BoardWithBlank(8), (<<"1", "2", "3", "4", "5", "6", "7", "8", "9", o>>)>>,
          <<(<<"1", "2", "3">>), (<<"1", "2">>)>>,
          <<BoardWithBlank(8), (<<"1", "2", "3", "4", "5", "6", "7", "x", o>>)>>,
          <<BoardWithBlank(4), (<<"1", "2", "3", "4", "1", "5", "6", "7", "8">>)>> }

\* goals four slides from the start: one with the tile of code 8 in the slot
\* before the blank, one with the blank in slot 0
FarPairs ==
    { <<BoardWithBlank(5), (<<"1", "2", "3", "4", "8", Blank, "6", "5", "7">>)>>,
      <<BoardWithBlank(8), (<<Blank, "2", "3", "1", "5", "6", "4", "7", "8">>)>> }

InputPairs == ValidPairs \cup FarPairs \cup OddPairs

\* a permutation of 9 distinct symbols, exactly one of them the blank
ValidBoard(b) ==
    /\ Len(b) = 9
    /\ \A i, j \in 1..9 : i # j => b[i] # b[j]
    /\ \E i \in 1..9 : b[i] = Blank

Symbols(b) == {b[i] : i \in 1..Len(b)}

ValidPair(a, b) == ValidBoard(a) /\ ValidBoard(b) /\ Symbols(a) = Symbols(b)

(***************************************************************************)
(* fn solve: main.rs lines 208-252                                         *)
(***************************************************************************)
MoveIdle ==
    /\ m_src = Zero32
    /\ m_move = "none"
    /\ m_mid = Zero32
    /\ m_back = Zero32
    /\ m_phase = "idle"

FactIdle ==
    /\ f_op = "none"
    /\ f_a = 0
    /\ f_b = 0
    /\ f_from = <<>>
    /\ f_this = <<>>
    /\ f_other = <<>>
    /\ f_out = <<>>
    /\ f_phase = "idle"

SolveEntry(a, b) ==
    /\ input = a
    /\ output = b
    /\ pc = "validate"
    /\ result = "none"
    /\ mapping = <<>>
    /\ in_cipher = Zero32
    /\ out_cipher = Zero32
    /\ arr = <<>>
    /\ current_moves = <<>>
    /\ future_moves = <<>>
    /\ cur = Zero32
    /\ trace = <<>>

Init ==
    /\ \E p \in InputPairs : SolveEntry(p[1], p[2])
    /\ MoveIdle
    /\ FactIdle

\* line 209: validate_input(input, output)?
ValidateInput ==
    /\ pc = "validate"
    /\ LET v == validate_input(input, output) IN
       IF v = "Ok"
       THEN pc' = "setup" /\ result' = result
       ELSE pc' = "done" /\ result' = v
    /\ UNCHANGED <<input, output, mapping, in_cipher, out_cipher, arr,
                   current_moves, future_moves, cur, trace>>
    /\ UNCHANGED move_vars
    /\ UNCHANGED fact_vars

\* lines 211-223: the mapping, the two packed boards, the root of the search
Setup ==
    /\ pc = "setup"
    /\ LET map == make_mapping(input)
           ciphers == pack(input, output, map)
       IN  /\ mapping' = map
           /\ in_cipher' = ciphers[1]
           /\ out_cipher' = ciphers[2]
           /\ arr' = (ciphers[2] :> ciphers[2])
           /\ current_moves' = <<ciphers[2]>>
    /\ future_moves' = <<>>
    /\ cur' = Zero32
    /\ pc' = "loop"
    /\ UNCHANGED <<input, output, result, trace>>
    /\ UNCHANGED move_vars
    /\ UNCHANGED fact_vars

\* lines 228-235: the four moves of one state, in the order up, down, left,
\* right; a value not yet a key is recorded with its discoverer and pushed
RECURSIVE expand_always_push(_, _, _, _)
expand_always_push(c, i, a, f) ==
    IF i > Len(MoveNames) THEN <<a, f>>
    ELSE LET value == Apply(MoveNames[i], c) IN
         IF value \in DOMAIN a THEN expand_always_push(c, i + 1, a, Append(f, value))
         ELSE expand_always_push(c, i + 1, a @@ (value :> c), Append(f, value))

\* arr.insert(value, cur) in place of the entry API
RECURSIVE expand_overwrite(_, _, _, _)
expand_overwrite(c, i, a, f) ==
    IF i > Len(MoveNames) THEN <<a, f>>
    ELSE LET value == Apply(MoveNames[i], c)
             put == [x \in DOMAIN a \cup {value} |-> IF x = value THEN c ELSE a[x]]
         IN  IF value \in DOMAIN a THEN expand_overwrite(c, i + 1, put, f)
             ELSE expand_overwrite(c, i + 1, put, Append(f, value))

\* the closure of or_insert_with returning value in place of cur
RECURSIVE expand_record_value(_, _, _, _)
expand_record_value(c, i, a, f) ==
    IF i > Len(MoveNames) THEN <<a, f>>
    ELSE LET value == Apply(MoveNames[i], c) IN
         IF value \in DOMAIN a THEN expand_record_value(c, i + 1, a, f)
         ELSE expand_record_value(c, i + 1, a @@ (value :> value), Append(f, value))

RECURSIVE expand_from(_, _, _, _)
expand_from(c, i, a, f) ==
    IF i > Len(MoveNames) THEN <<a, f>>
    ELSE LET value == Apply(MoveNames[i], c) IN
         IF value \in DOMAIN a THEN expand_from(c, i + 1, a, f)
         ELSE expand_from(c, i + 1, a @@ (value :> c), Append(f, value))

\* Vec::pop: the last element is returned and removed
pop_value(v) == v[Len(v)]

after_pop(v) == SubSeq(v, 1, Len(v) - 1)

\* line 237: current_moves.is_empty()
is_empty_always(v) == TRUE

\* the swap one element early
is_empty_short(v) == Len(v) <= 1

is_empty(v) == v = <<>>

\* lines 225-240: one iteration of the search loop
Expand ==
    /\ pc = "loop"
    /\ cur # in_cipher
    /\ current_moves # <<>>
    /\ Cardinality(DOMAIN arr) < MaxStates
    /\ LET popped == pop_value(current_moves)
           rest == after_pop(current_moves)
           grown == expand_from(popped, 1, arr, future_moves)
       IN  /\ cur' = popped
           /\ arr' = grown[1]
           /\ IF is_empty(rest)
              THEN current_moves' = grown[2] /\ future_moves' = rest
              ELSE current_moves' = rest /\ future_moves' = grown[2]
    /\ UNCHANGED <<input, output, pc, result, mapping, in_cipher, out_cipher, trace>>
    /\ UNCHANGED move_vars
    /\ UNCHANGED fact_vars

\* line 226: pop on an empty vector, ok_or(Unsolvable)?
PopEmpty ==
    /\ pc = "loop"
    /\ cur # in_cipher
    /\ current_moves = <<>>
    /\ pc' = "done"
    /\ result' = "Unsolvable"
    /\ UNCHANGED <<input, output, mapping, in_cipher, out_cipher, arr,
                   current_moves, future_moves, cur, trace>>
    /\ UNCHANGED move_vars
    /\ UNCHANGED fact_vars

\* lines 225, 242: the loop ends on cur = in_cipher; trace = vec![cur]
ExitLoop ==
    /\ pc = "loop"
    /\ cur = in_cipher
    /\ trace' = <<cur>>
    /\ pc' = "trace"
    /\ UNCHANGED <<input, output, result, mapping, in_cipher, out_cipher, arr,
                   current_moves, future_moves, cur>>
    /\ UNCHANGED move_vars
    /\ UNCHANGED fact_vars

\* lines 244-247: one step of the walk along the predecessors
TraceStep ==
    /\ pc = "trace"
    /\ cur \in DOMAIN arr
    /\ cur # arr[cur]
    /\ cur' = arr[cur]
    /\ trace' = Append(trace, arr[cur])
    /\ UNCHANGED <<input, output, pc, result, mapping, in_cipher, out_cipher, arr,
                   current_moves, future_moves>>
    /\ UNCHANGED move_vars
    /\ UNCHANGED fact_vars

\* lines 244, 249-251: the walk ends at the self-mapped root (an index of a
\* missing key panics); Ok(Trace { trace, mapping })
TraceDone ==
    /\ pc = "trace"
    /\ cur \notin DOMAIN arr \/ cur = arr[cur]
    /\ pc' = "done"
    /\ IF cur \notin DOMAIN arr
       THEN result' = "panic" /\ mapping' = mapping
       ELSE result' = "Ok" /\ mapping' = invert_mapping(mapping)
    /\ UNCHANGED <<input, output, in_cipher, out_cipher, arr,
                   current_moves, future_moves, cur, trace>>
    /\ UNCHANGED move_vars
    /\ UNCHANGED fact_vars

Next ==
    \/ ValidateInput
    \/ Setup
    \/ Expand
    \/ PopEmpty
    \/ ExitLoop
    \/ TraceStep
    \/ TraceDone

Spec == Init /\ [][Next]_vars

(***************************************************************************)
(* The move functions on their own: a move applied to a packed state, then *)
(* the opposite move applied to the result.  The packed states are those   *)
(* fn pack produces for the valid boards above.                            *)
(***************************************************************************)
PackedStates ==
    UNION { LET c == pack(p[1], p[2], make_mapping(p[1])) IN {c[1], c[2]}
            : p \in {q \in InputPairs : ValidPair(q[1], q[2])} }

Inverse(m) ==
    CASE m = "up" -> "down"
      [] m = "down" -> "up"
      [] m = "left" -> "right"
      [] m = "right" -> "left"

SolveIdle ==
    /\ input = <<>>
    /\ output = <<>>
    /\ pc = "idle"
    /\ result = "none"
    /\ mapping = <<>>
    /\ in_cipher = Zero32
    /\ out_cipher = Zero32
    /\ arr = <<>>
    /\ current_moves = <<>>
    /\ future_moves = <<>>
    /\ cur = Zero32
    /\ trace = <<>>

MoveInit ==
    /\ SolveIdle
    /\ m_src \in PackedStates
    /\ m_move = "none"
    /\ m_mid = Zero32
    /\ m_back = Zero32
    /\ m_phase = "start"
    /\ FactIdle

MoveApply ==
    /\ m_phase = "start"
    /\ \E m \in AllMoves :
          /\ m_move' = m
          /\ m_mid' = Apply(m, m_src)
    /\ m_phase' = "moved"
    /\ UNCHANGED <<m_src, m_back>>
    /\ UNCHANGED solve_vars
    /\ UNCHANGED fact_vars

MoveUndo ==
    /\ m_phase = "moved"
    /\ m_back' = Apply(Inverse(m_move), m_mid)
    /\ m_phase' = "undone"
    /\ UNCHANGED <<m_src, m_move, m_mid>>
    /\ UNCHANGED solve_vars
    /\ UNCHANGED fact_vars

MoveNext == MoveApply \/ MoveUndo

MoveSpec == MoveInit /\ [][MoveNext]_vars

(***************************************************************************)
(* src/src/factoriadic.rs: numbers in the factorial base, least significant *)
(* digit first, their addition, and the i-th permutation of a slice.       *)
(***************************************************************************)
MaxNat == 23

MaxLen == 4

\* Factoriadic::new, lines 5-21: the loop body runs at least once
RECURSIVE new_from(_, _, _)
new_from(n, factor, out) ==
    LET rem == n % factor
        rest == n \div factor
    IN  IF rest = 0 THEN Append(out, rem)
        ELSE new_from(rest, factor + 1, Append(out, rem))

new(n) == new_from(n, 1, <<>>)

to_rev_vec(v) == [i \in 1..Len(v) |-> v[Len(v) + 1 - i]]

carry_too_late(sum, factor) == IF sum \div (factor + 1) # 0 THEN 1 ELSE 0

\* line 40: carry = (sum / factor != 0) as u64
carry_of(sum, factor) == IF sum \div factor # 0 THEN 1 ELSE 0

\* lines 37-50: the zip stops at the shorter operand; k is the 1-based index
RECURSIVE add_from(_, _, _, _, _, _)
add_from(this, other, k, carry, factor, out) ==
    IF k > Len(this) \/ k > Len(other)
    THEN IF carry # 0 THEN Append(out, carry) ELSE out
    ELSE LET sum == this[k] + other[k] + carry
             res == sum % factor
         IN  add_from(this, other, k + 1, carry_of(sum, factor), factor + 1,
                      Append(out, res))

add(this, other) == add_from(this, other, 1, 0, 1, <<>>)

\* Vec::resize_with(n, Default::default): truncated or filled with zeros
resize_with(f, n) ==
    IF n <= Len(f) THEN SubSeq(f, 1, n)
    ELSE f \o [i \in 1..(n - Len(f)) |-> 0]

\* slice::rotate_right(k) for k <= len: the element at i moves to i + k
vec_rotate_right(f, k) == [i \in 1..Len(f) |-> f[((i - 1 - k) % Len(f)) + 1]]

\* Vec::remove(index), index 0-based and in range
vec_remove(v, index) == SubSeq(v, 1, index) \o SubSeq(v, index + 2, Len(v))

Panicked == [panic |-> TRUE, out |-> <<>>]

\* lines 71-74: from[index] fails for an index out of range
RECURSIVE take_from(_, _, _, _)
take_from(from, f, j, out) ==
    IF j > Len(f) THEN [panic |-> FALSE, out |-> out]
    ELSE IF f[j] >= Len(from) THEN Panicked
    ELSE take_from(vec_remove(from, f[j]), f, j + 1, Append(out, from[f[j] + 1]))

\* get_ith, lines 60-78.  from.len() - s with from.len() < s fails in every
\* build: the subtraction panics with overflow checks, and without them the
\* wrapped amount is greater than the length, which rotate_right rejects
get_ith(from, i) ==
    LET f0 == to_rev_vec(new(i))
        s == Len(f0)
        f1 == resize_with(f0, Len(from))
    IN  IF Len(from) < s THEN Panicked
        ELSE take_from(from, vec_rotate_right(f1, Len(from) - s), 1, <<>>)

RECURSIVE Factorial(_)
Factorial(n) == IF n = 0 THEN 1 ELSE n * Factorial(n - 1)

\* slices of distinct elements: 1..n as in fn main, and n tens in falling order
Slices ==
    {[i \in 1..n |-> i] : n \in 0..MaxLen}
    \cup {[i \in 1..n |-> 10 * (n + 1 - i)] : n \in 2..MaxLen}

FactInit ==
    /\ SolveIdle
    /\ MoveIdle
    /\ \/ /\ f_op = "add"
          /\ f_a \in 0..MaxNat
          /\ f_b \in 0..MaxNat
          /\ f_from = <<>>
       \/ /\ f_op = "get_ith"
          /\ f_from \in Slices
          /\ f_a \in 0..Factorial(Len(f_from))
          /\ f_b = 0
    /\ f_this = <<>>
    /\ f_other = <<>>
    /\ f_out = <<>>
    /\ f_phase = "start"

\* Factoriadic::new(a), Factoriadic::new(b)
FactNew ==
    /\ f_op = "add"
    /\ f_phase = "start"
    /\ f_this' = new(f_a)
    /\ f_other' = new(f_b)
    /\ f_phase' = "built"
    /\ UNCHANGED <<f_op, f_a, f_b, f_from, f_out>>
    /\ UNCHANGED solve_vars
    /\ UNCHANGED move_vars

\* Factoriadic::new(a) + Factoriadic::new(b)
FactAdd ==
    /\ f_op = "add"
    /\ f_phase = "built"
    /\ f_out' = add(f_this, f_other)
    /\ f_phase' = "done"
    /\ UNCHANGED <<f_op, f_a, f_b, f_from, f_this, f_other>>
    /\ UNCHANGED solve_vars
    /\ UNCHANGED move_vars

\* get_ith(&from, i)
GetIth ==
    /\ f_op = "get_ith"
    /\ f_phase = "start"
    /\ f_out' = get_ith(f_from, f_a)
    /\ f_phase' = "done"
    /\ UNCHANGED <<f_op, f_a, f_b, f_from, f_this, f_other>>
    /\ UNCHANGED solve_vars
    /\ UNCHANGED move_vars

FactNext == FactNew \/ FactAdd \/ GetIth

FactSpec == FactInit /\ [][FactNext]_vars

(***************************************************************************)
(* Reference notions the properties are stated with                        *)
(***************************************************************************)
SameMultiset(a, b) ==
    \A ch \in Symbols(a) \cup Symbols(b) : count(a, ch) = count(b, ch)

IndexIn(b, ch) == CHOOSE i \in 1..Len(b) : b[i] = ch

\* pairs of tiles that stand in one order in a and in the other order in b
Inversions(a, b) ==
    Cardinality({pr \in (1..9) \X (1..9) :
                    /\ pr[1] < pr[2]
                    /\ a[pr[1]] # Blank
                    /\ a[pr[2]] # Blank
                    /\ IndexIn(b, a[pr[1]]) > IndexIn(b, a[pr[2]])})

\* on a board of odd width the parity of the inversions never changes
ParityDiffers(a, b) == Inversions(a, b) % 2 = 1

\* the nine 3-bit slot values of a field: how often each value occurs
SlotBag(field) ==
    LET tile == [i \in 0..8 |-> get_tile(field, i)]
    IN  [c \in 0..7 |-> Cardinality({i \in 0..8 : tile[i] = c})]

\* the slot the position field names holds 000
BlankSlotZero(field) == get_tile(field, get_blank_pos(field)) = 0

\* from a state whose blank slot is zero a move carries one slot value to the
\* blank's slot, zeroes the slot it came from and changes no other slot: the
\* slot values stay the same bag and the new blank slot is zero again
MoveKeepsSlotBag(m, field) ==
    (get_blank_pos(field) \in 0..8 /\ BlankSlotZero(field))
    => LET moved == Apply(m, field)
       IN  /\ SlotBag(moved) = SlotBag(field)
           /\ BlankSlotZero(moved)
           /\ get_blank_pos(moved) \in 0..8

\* every key of a search whose packed goal has a position in 0..8 and a zero
\* blank slot has the slot values of the packed goal and a zero blank slot
SearchKeepsSlotBag ==
    (get_blank_pos(out_cipher) \in 0..8 /\ BlankSlotZero(out_cipher))
    => \A k \in DOMAIN arr :
          SlotBag(k) = SlotBag(out_cipher) /\ BlankSlotZero(k)

\* the least number of moves that lead from a state of frontier to target,
\* k moves being spent already and seen being the states met so far;
\* limit + 1 when more than limit moves are needed
RECURSIVE MovesNeeded(_, _, _, _, _)
MovesNeeded(frontier, seen, target, k, limit) ==
    IF target \in frontier THEN k
    ELSE IF k >= limit THEN limit + 1
    ELSE LET next == {Apply(m, x) : m \in AllMoves, x \in frontier} \ seen IN
         MovesNeeded(next, seen \cup next, target, k + 1, limit)

Distance(from, target, limit) == MovesNeeded({from}, {from}, target, 0, limit)

\* packed is board P under the mapping map: position field and tile codes
RoundTrip(packed, P, map) ==
    /\ get_blank_pos(packed) = BlankIndex(P) - 1
    /\ \A i \in 1..9 : P[i] # Blank => get_tile(packed, i - 1) = map[P[i]]
    /\ fmt_field(packed, invert_mapping(map)) = P

\* the distinct non-blank symbols of b in the order of their first occurrence
RECURSIVE FirstOccurrences(_, _, _)
FirstOccurrences(b, i, acc) ==
    IF i > Len(b) THEN acc
    ELSE IF b[i] = Blank \/ \E k \in 1..Len(acc) : acc[k] = b[i]
         THEN FirstOccurrences(b, i + 1, acc)
         ELSE FirstOccurrences(b, i + 1, Append(acc, b[i]))

Range(v) == {v[i] : i \in 1..Len(v)}

\* the states the search holds: the keys of the map and the two vectors
SearchStates == DOMAIN arr \cup Range(current_moves) \cup Range(future_moves)

KnownStates == SearchStates \cup {in_cipher, out_cipher}

\* the codes the mapping gives the eight tiles of the goal board
GoalCodes == {mapping[output[j]] : j \in {i \in 1..9 : output[i] # Blank}}

\* in how many slots other than the blank's the field holds the code c
SlotCount(field, c) ==
    Cardinality({i \in 0..8 : i # get_blank_pos(field) /\ get_tile(field, i) = c})

IsGoalRearranged(k) ==
    /\ get_blank_pos(k) \in 0..8
    /\ \A c \in GoalCodes : SlotCount(k, c) = 1

\* the board a state stands for: the blank's position and the codes of the
\* other slots (0 written for the blank's own slot)
BoardOf(k) ==
    LET p == get_blank_pos(k) IN
    <<p, [i \in 0..8 |-> IF i = p THEN 0 ELSE get_tile(k, i)]>>

\* following the predecessors from k leads to the self-mapped goal through
\* keys of the map only, none of them in seen or met twice
RECURSIVE WalksToRoot(_, _)
WalksToRoot(k, seen) ==
    IF k \notin DOMAIN arr THEN FALSE
    ELSE IF arr[k] = k THEN k = out_cipher
    ELSE IF arr[k] \in seen THEN FALSE
    ELSE WalksToRoot(arr[k], seen \cup {arr[k]})

\* the number of predecessor steps from the key k to the self-mapped root
RECURSIVE ChainLength(_)
ChainLength(k) == IF arr[k] = k THEN 0 ELSE 1 + ChainLength(arr[k])

\* the states at 0, 1, 2, ... moves from the goal, as far as needed to meet
\* every key of the map: layers[i] holds the states i - 1 moves away
RECURSIVE GoalLayers(_, _, _)
GoalLayers(frontier, seen, acc) ==
    IF DOMAIN arr \subseteq seen \/ frontier = {} THEN acc
    ELSE LET next == {Apply(m, x) : m \in AllMoves, x \in frontier} \ seen
         IN  GoalLayers(next, seen \cup next, Append(acc, next))

\* the map grows no more: solve has returned, or the search has reached the
\* number of states it is followed for
MapSettled == pc = "done" \/ Cardinality(DOMAIN arr) >= MaxStates

\* the number a digit sequence stands for: the sum of d[k] * (k - 1)!
RECURSIVE FactValue(_, _)
FactValue(d, k) ==
    IF k > Len(d) THEN 0 ELSE d[k] * Factorial(k - 1) + FactValue(d, k + 1)

\* how many of the elements of pool stand before x
RankIn(pool, x) ==
    Cardinality({i \in 1..Len(pool) : \E j \in (i + 1)..Len(pool) : pool[j] = x})

\* the place of the sequence perm among the permutations of pool in the
\* lexicographic order that the positions in pool induce, counted from 0
RECURSIVE LexRank(_, _)
LexRank(perm, pool) ==
    IF perm = <<>> THEN 0
    ELSE LET r == RankIn(pool, perm[1]) IN
         r * Factorial(Len(perm) - 1) + LexRank(Tail(perm), vec_remove(pool, r))

NothingPacked ==
    /\ mapping = <<>>
    /\ in_cipher = Zero32
    /\ out_cipher = Zero32
    /\ arr = <<>>
    /\ current_moves = <<>>
    /\ future_moves = <<>>
    /\ trace = <<>>

(***************************************************************************)
(* Properties                                                              *)
(***************************************************************************)

\* what solve has returned: Ok with a trace that is not empty, begins with
\* the packed start, ends with the packed goal, and in which two neighbours
\* differ and one of the four moves applied to one of them gives the other
C1_Returned ==
    /\ result = "Ok"
    /\ trace # <<>>
    /\ trace[1] = in_cipher
    /\ trace[Len(trace)] = out_cipher
    /\ \A i \in 1..(Len(trace) - 1) :
          /\ trace[i] # trace[i + 1]
          /\ \E m \in AllMoves :
                trace[i] = Apply(m, trace[i + 1]) \/ trace[i + 1] = Apply(m, trace[i])

\* the search can still meet the packed start: the states it reaches from a
\* packed goal with a zero blank slot all have the slot values of the packed
\* goal (MoveKeepsSlotBag, SearchKeepsSlotBag), so the packed start has them
C1_StartWithinReach ==
    BlankSlotZero(out_cipher) => SlotBag(in_cipher) = SlotBag(out_cipher)

\* C1: for valid start and goal boards over the same symbols, the goal
\* reachable from the start by legal slides, solve returns Ok with a trace
\* that is not empty, begins with the packed start, ends with the packed
\* goal, and in which every two neighbours differ by one legal slide (one of
\* up, down, left, right applied to one gives the other).  While the search
\* runs, the packed start is within its reach; when solve has ended, it has
\* returned that trace.
C1_TraceFromStartToGoal ==
    (/\ ValidPair(input, output)
     /\ output \in BoardsWithin(input, MaxDist))
    => /\ pc = "done" => C1_Returned
       /\ pc = "loop" => C1_StartWithinReach

\* C2: a returned trace is a path of moves from the packed goal to the
\* packed start, and no sequence of fewer moves leads from the packed goal
\* to the packed start.
C2_TraceIsShortest ==
    result = "Ok"
    => /\ trace # <<>>
       /\ trace[1] = in_cipher
       /\ trace[Len(trace)] = out_cipher
       /\ \A i \in 1..(Len(trace) - 1) :
             \E m \in AllMoves : trace[i] = Apply(m, trace[i + 1])
       /\ Distance(out_cipher, in_cipher, Len(trace) - 1) = Len(trace) - 1

C2_Witness ==
    /\ result = "Ok"
    /\ Len(trace) >= 4
    /\ ValidPair(input, output)

\* C3: the search never fails on a lookup, Unsolvable is returned exactly
\* with both frontier vectors empty and every state reachable from the goal
\* expanded without the start among them, and the loop does not run for
\* ever: each iteration strictly increases 5 * |map| - |frontier|, which
\* the number of packed states bounds.
C3_Exhausted ==
    /\ result # "panic"
    /\ result = "Unsolvable"
       => /\ current_moves = <<>>
          /\ future_moves = <<>>
          /\ out_cipher \in DOMAIN arr
          /\ in_cipher \notin DOMAIN arr
          /\ \A k \in DOMAIN arr, m \in AllMoves : Apply(m, k) \in DOMAIN arr

\* every iteration of the loop adds keys to the map or shortens the frontier
C3_Measure == 5 * Cardinality(DOMAIN arr) - (Len(current_moves) + Len(future_moves))

C3_Progress ==
    (pc = "loop" /\ pc' = "loop") => C3_Measure' > C3_Measure

C3_UnreachableTerminates ==
    []C3_Exhausted /\ [][C3_Progress]_vars

C3_Witness ==
    /\ result = "Unsolvable"
    /\ Cardinality(DOMAIN arr) < MaxStates
    /\ cur # in_cipher

\* C4: for a valid pair of differing inversion parity nothing is inserted
\* into the predecessor map or a frontier vector: Unsolvable is produced
\* before the search begins.
C4_RejectedBeforeSearch ==
    (ValidPair(input, output) /\ ParityDiffers(input, output))
    => \/ result = "Unsolvable"
       \/ (arr = <<>> /\ current_moves = <<>> /\ future_moves = <<>>)

\* C5: for valid boards the packed start and the packed goal hold the blank's
\* index in the position field and, in every other slot, the code the
\* mapping gives the slot's symbol, so that decoding gives the board back.
C5_CodecRoundTrip ==
    (pc = "loop" /\ ValidPair(input, output))
    => /\ RoundTrip(in_cipher, input, mapping)
       /\ RoundTrip(out_cipher, output, mapping)

\* C6: for a valid start board the mapping gives the 8 non-blank symbols the
\* codes 0..7 in the order of their first occurrence.
C6_CodesFitThreeBits ==
    (pc = "loop" /\ ValidBoard(input))
    => LET syms == FirstOccurrences(input, 1, <<>>) IN
       \A k \in 1..Len(syms) : mapping[syms[k]] = k - 1 /\ mapping[syms[k]] \in 0..7

\* C7: a start or goal of length 9 that is not a permutation of 9 distinct
\* symbols with exactly one blank ends in AlphabetMismatch with nothing
\* packed.
C7_InvalidBoardRejected ==
    (/\ pc # "validate"
     /\ Len(input) = 9
     /\ Len(output) = 9
     /\ ~ValidBoard(input) \/ ~ValidBoard(output))
    => result = "AlphabetMismatch" /\ NothingPacked

\* C8: the size of the start is checked first, then the size of the goal,
\* then that both hold the same symbols as often; each failure ends solve
\* with nothing packed, inserted or pushed.
C8_ValidationOrder ==
    pc # "validate"
    => /\ Len(input) # 9 => result = "InputSizeMismatch"
       /\ (Len(input) = 9 /\ Len(output) # 9) => result = "OutputSizeMismatch"
       /\ (Len(input) = 9 /\ Len(output) = 9 /\ ~SameMultiset(input, output))
             => result = "AlphabetMismatch"
       /\ (Len(input) # 9 \/ Len(output) # 9 \/ ~SameMultiset(input, output))
             => pc = "done" /\ NothingPacked

C8_Witness ==
    /\ pc = "done"
    /\ result = "AlphabetMismatch"
    /\ Len(input) = 9
    /\ Len(output) = 9
    /\ \E i \in 1..9 : output[i] \notin Symbols(input)

\* C9: a move that is illegal at the blank's position (0..8) returns the
\* state unchanged in every bit.
C9_IllegalMoveIsNoop ==
    (/\ m_phase \in {"moved", "undone"}
     /\ get_blank_pos(m_src) \in 0..8
     /\ ~SlideLegal(m_move, get_blank_pos(m_src)))
    => m_mid = m_src

C9_Witness ==
    /\ m_phase = "moved"
    /\ m_move = "up"
    /\ get_blank_pos(m_src) = 2
    /\ m_mid = m_src

\* C10: for a state with the blank at 0..8, whatever the bits of the blank's
\* own slot, a legal move followed by the opposite move gives the state back
\* as a 32-bit value.
C10_InverseRestores ==
    (/\ m_phase = "undone"
     /\ get_blank_pos(m_src) \in 0..8
     /\ SlideLegal(m_move, get_blank_pos(m_src)))
    => m_back = m_src

\* C11: for a valid start/goal pair every state that is a key of the
\* predecessor map or stands in a frontier vector has its position field in
\* 0..8 and holds, in its eight slots other than the blank's, each of the
\* eight tile codes of the goal board exactly once.
C11_StatesAreGoalRearranged ==
    (pc \in {"loop", "trace"} /\ ValidPair(input, output))
    => \A k \in SearchStates : IsGoalRearranged(k)

\* C12: among the packed start, the packed goal and the states of the search
\* the 3 bits of the blank's own slot are zero, and two states with the same
\* blank position and the same codes in the other eight slots are the same
\* 32-bit value.
C12_CanonicalEncoding ==
    (pc \in {"loop", "trace", "done"} /\ arr # <<>> /\ ValidPair(input, output))
    => /\ \A k \in KnownStates : get_tile(k, get_blank_pos(k)) = 0
       /\ \A k1, k2 \in KnownStates : BoardOf(k1) = BoardOf(k2) => k1 = k2

\* C13: the predecessor map starts as the single entry goal -> goal; a key
\* once present is never removed and its value never changes; the goal is the
\* only key that maps to itself; every other key is the result of one of the
\* four moves applied to the state it maps to (stated of every entry at the
\* step that inserts it, the entry being the same ever after).
C13_Rooted ==
    arr # <<>>
    => /\ out_cipher \in DOMAIN arr
       /\ arr[out_cipher] = out_cipher
       /\ \A k \in DOMAIN arr \ {out_cipher} : arr[k] # k

C13_InsertOnce ==
    /\ arr = <<>> => (arr' = <<>> \/ arr' = (out_cipher' :> out_cipher'))
    /\ \A k \in DOMAIN arr : k \in DOMAIN arr' /\ arr'[k] = arr[k]
    /\ arr # <<>>
       => \A k \in DOMAIN arr' \ DOMAIN arr :
             \E m \in AllMoves : k = Apply(m, arr'[k])

C13_PredecessorMapInsertOnce ==
    []C13_Rooted /\ [][C13_InsertOnce]_vars

\* the state just expanded found a successor that was a key already, under
\* another discoverer
C13_Witness ==
    /\ pc = "loop"
    /\ Cardinality(DOMAIN arr) >= 5
    /\ cur \in DOMAIN arr
    /\ \E m \in AllMoves :
          LET value == Apply(m, cur) IN
          value # cur /\ value \in DOMAIN arr /\ arr[value] # cur

\* C14: at every point of the search, from every key of the predecessor map
\* the walk along the predecessors meets only keys of the map, meets no state
\* twice and ends at the self-mapped goal; the reconstruction loop therefore
\* never looks up a missing key, and the trace it builds repeats no state
\* and ends at the goal.
C14_ChainsReachRoot ==
    /\ result # "panic"
    /\ \A k \in DOMAIN arr : WalksToRoot(k, {k})
    /\ pc = "trace" => cur \in DOMAIN arr
    /\ \A i, j \in 1..Len(trace) : i # j => trace[i] # trace[j]
    /\ result = "Ok" => trace[Len(trace)] = out_cipher

\* the reconstruction loop is three predecessors away from the found state
\* and not yet at the root
C14_Witness ==
    /\ pc = "trace"
    /\ Len(trace) >= 4
    /\ cur \in DOMAIN arr
    /\ cur # arr[cur]

\* C15: the frontier is strict FIFO: every dequeue takes the state that was
\* enqueued first among those waiting.  The states wait in the order of
\* their discovery in current_moves followed by future_moves, so the oldest
\* is the first element of current_moves.
C15_DequeuesOldest ==
    (pc = "loop" /\ pc' = "loop" /\ current_moves # <<>>)
    => cur' = current_moves[1]

C15_StrictFifo == [][C15_DequeuesOldest]_vars

\* C16: the search is breadth first.  With the distance of a state being the
\* least number of moves that lead from the goal to it: the states of
\* current_moves all have one distance d and those of future_moves the
\* distance d + 1, no waiting state is nearer to the goal than the state
\* dequeued last, and every key other than the goal maps to a state one
\* move nearer to the goal.  The distance of a key is the length of its
\* predecessor chain, which no later step changes (C13); that this length
\* is the least number of moves is compared with a search of its own over
\* the move functions once the map has stopped growing.
C16_BreadthFirstLayers ==
    arr # <<>>
    => /\ \A x, y \in Range(current_moves) : ChainLength(x) = ChainLength(y)
       /\ \A x \in Range(current_moves), y \in Range(future_moves) :
             ChainLength(y) = ChainLength(x) + 1
       /\ current_moves = <<>> => future_moves = <<>>
       /\ cur \in DOMAIN arr
          => \A x \in Range(current_moves) \cup Range(future_moves) :
                ChainLength(cur) <= ChainLength(x)
       /\ \A k \in DOMAIN arr \ {out_cipher} :
             ChainLength(arr[k]) = ChainLength(k) - 1
       /\ MapSettled
          => LET layers == GoalLayers({out_cipher}, {out_cipher}, <<{out_cipher}>>)
             IN  \A k \in DOMAIN arr :
                    /\ \E i \in 1..Len(layers) : k \in layers[i]
                    /\ k \in layers[ChainLength(k) + 1]

\* a search that has stopped in the middle of a layer at least three moves
\* from the goal, with states of two layers waiting
C16_Witness ==
    /\ MapSettled
    /\ Len(current_moves) >= 2
    /\ Len(future_moves) >= 1
    /\ ChainLength(current_moves[1]) >= 3

\* C17: for a state with the blank at p in 0..8 and a move legal there, of
\* position change delta: (1) the rotated tile has its 3 bits in bits
\* [3p, 3p + 3) and no bit set elsewhere; (2) the addition of
\* (delta as u32) << 27 to the field does not carry out of bit 31, sets
\* bits 27..31 to p + delta and leaves bits 0..26 as they were.
C17_TileRotated ==
    LET p == get_blank_pos(m_src)
        d == digit_new(m_move, m_src)
    IN  /\ get_tile(d, p) = get_tile(m_src, p + delta_pos(m_move))
        /\ BitAnd(d, BitNot(get_mask(p))) = Zero32

C17_PositionUpdated ==
    LET p == get_blank_pos(m_src)
        before == placed(m_move, m_src)
    IN  /\ get_blank_pos(m_mid) = p + delta_pos(m_move)
        /\ \A j \in 1..27 : m_mid[j] = before[j]

C17_SumFitsU32 ==
    CarryOut(placed(m_move, m_src), pos_change(m_move)) = 0

C17_MoveArithmetic ==
    (/\ m_phase \in {"moved", "undone"}
     /\ get_blank_pos(m_src) \in 0..8
     /\ SlideLegal(m_move, get_blank_pos(m_src)))
    => C17_TileRotated /\ C17_PositionUpdated /\ C17_SumFitsU32

\* C18: for a and b whose digit sequences have the same length, the sum of
\* the two sequences is the digit sequence of a + b: digit k (k from 0) is
\* at most k, the digits weighted by k! add up to a + b, and the top digit
\* is not zero unless a + b = 0.
C18_AddIsNewOfSum ==
    (f_op = "add" /\ f_phase = "done" /\ Len(f_this) = Len(f_other))
    => /\ f_out = new(f_a + f_b)
       /\ \A k \in 1..Len(f_out) : f_out[k] <= k - 1
       /\ FactValue(f_out, 1) = f_a + f_b
       /\ Len(f_out) >= 1
       /\ f_a + f_b # 0 => f_out[Len(f_out)] # 0

\* two different numbers of three or more digits whose sum has one digit more
C18_Witness ==
    /\ f_op = "add"
    /\ f_phase = "done"
    /\ Len(f_this) = Len(f_other)
    /\ Len(f_this) >= 3
    /\ f_a # f_b
    /\ Len(f_out) = Len(f_this) + 1

\* C19: for a slice of n distinct elements and 0 <= i < n!, get_ith ends
\* without a failing index or length, its result holds every element of the
\* slice exactly once, it is the slice itself for i = 0, and it is the i-th
\* permutation in the lexicographic order induced by the positions in the
\* slice, so that the results for i < j are in that order and differ.
C19_IthPermutation ==
    (f_op = "get_ith" /\ f_phase = "done" /\ f_a < Factorial(Len(f_from)))
    => /\ ~f_out.panic
       /\ Len(f_out.out) = Len(f_from)
       /\ \A x \in Range(f_from) : count(f_out.out, x) = 1
       /\ f_a = 0 => f_out.out = f_from
       /\ LexRank(f_out.out, f_from) = f_a

====
